---------------------------- MODULE Spec2Model ----------------------------
(***************************************************************************)
(* Streaming WAV consumer (tts_api_test.py) and TTS relay (tts_proxy.py). *)
(*                                                                         *)
(* Three specifications share this module:                                 *)
(*   SpecScan  - scan_chunks_streaming and dtype_for as pure functions,    *)
(*               applied to growing prefixes of WAV-like byte strings.     *)
(*   Spec      - play_stream: header accumulation, format resolution,      *)
(*               sink handling.                                            *)
(*   SpecRelay - tts_stream / gen: the relay generator and the response    *)
(*               the downstream peer observes.                             *)
(***************************************************************************)
EXTENDS Integers, Sequences, FiniteSets, TLC

(***************************************************************************)
(* Byte strings.  A byte string is head \o FILL^fill \o tail, where head   *)
(* and tail are explicit sequences of bytes (0..255) and FILL^fill is a    *)
(* run of `fill` bytes of value 170 (0xAA).  The run lets a buffer grow    *)
(* past MAX_HEADER_BYTES (1 MiB) without a million-element sequence.  The  *)
(* normal form has tail = <<>> whenever fill = 0.  Offsets are 0-based as  *)
(* in Python.                                                              *)
(***************************************************************************)
Min(a, b) == IF a < b THEN a ELSE b
Max(a, b) == IF a > b THEN a ELSE b

Norm(h, f, t) ==
    IF f = 0 THEN [head |-> h \o t, fill |-> 0, tail |-> <<>>]
             ELSE [head |-> h, fill |-> f, tail |-> t]

Bytes(s) == Norm(s, 0, <<>>)
Empty == Bytes(<<>>)

BLen(b) == Len(b.head) + b.fill + Len(b.tail)

\* b[i] for 0 <= i < BLen(b)
At(b, i) ==
    IF i < Len(b.head) THEN b.head[i + 1]
    ELSE IF i < Len(b.head) + b.fill THEN 170
    ELSE b.tail[i - Len(b.head) - b.fill + 1]

\* b[lo:hi] with Python's clamping of the bounds to the length
Slice(b, lo, hi) ==
    LET h  == Len(b.head)
        hf == h + b.fill
        n  == BLen(b)
        l  == Min(Max(lo, 0), n)
        u  == Max(Min(hi, n), l)
        hd == IF l < h THEN SubSeq(b.head, l + 1, Min(u, h)) ELSE <<>>
        fl == Max(0, Min(u, hf) - Max(l, h))
        tl == IF u > hf THEN SubSeq(b.tail, Max(l, hf) - hf + 1, u - hf) ELSE <<>>
    IN  Norm(hd, fl, tl)

\* a + b (bytearray.extend).  Defined for the strings that have one fill run.
Concat(a, b) ==
    CASE a.fill = 0 -> Norm(a.head \o b.head, b.fill, b.tail)
      [] a.fill > 0 /\ b.fill = 0 -> Norm(a.head, a.fill, a.tail \o b.head)
      [] a.fill > 0 /\ b.fill > 0 /\ a.tail = <<>> /\ b.head = <<>> ->
            Norm(a.head, a.fill + b.fill, b.tail)

(***************************************************************************)
(* Unsigned 32-bit values are kept exactly as two limbs, hi * 2^24 + lo,   *)
(* because Python integers do not wrap and a declared size may be as       *)
(* large as 2^32 - 1.                                                      *)
(***************************************************************************)
Limb == 256 * 65536

U32(hi, lo) == [hi |-> hi, lo |-> lo]

\* struct.unpack('<I', b[i:i+4])[0]
UnpackU32(b, i) ==
    U32(At(b, i + 3), At(b, i) + 256 * At(b, i + 1) + 65536 * At(b, i + 2))

\* struct.unpack('<H', b[i:i+2])[0]
UnpackU16(b, i) == At(b, i) + 256 * At(b, i + 1)

\* n + x for a small n >= 0 and a two-limb x
AddSmall(n, x) == U32(x.hi + ((n + x.lo) \div Limb), (n + x.lo) % Limb)

\* x > n and x >= n for a two-limb x and a small n
GtSmall(x, n) == x.hi > 0 \/ x.lo > n
GeSmall(x, n) == x.hi > 0 \/ x.lo >= n

None == <<>>
Some(x) == <<x>>
IsNone(o) == o = <<>>
Val(o) == o[1]

TagRIFF == <<82, 73, 70, 70>>
TagWAVE == <<87, 65, 86, 69>>
TagFmt  == <<102, 109, 116, 32>>
TagData == <<100, 97, 116, 97>>
TagLIST == <<76, 73, 83, 84>>

\* b[i:i+4] as a 4-tuple, for i + 4 <= BLen(b)
Tag(b, i) == <<At(b, i), At(b, i + 1), At(b, i + 2), At(b, i + 3)>>

(***************************************************************************)
(* scan_chunks_streaming (tts_api_test.py:42-100).  The result is the      *)
(* Python tuple (found, fmt, data_off): found is the list of               *)
(* (cid, start, size) triples, fmt and data_off are None or a value.       *)
(***************************************************************************)
ScanResult(found, fmt, data_off) ==
    [found |-> found, fmt |-> fmt, data_off |-> data_off]

\* struct.unpack('<HHIIHH', buf[i+8:i+8+16]) put into the fmt dict
ParseFmt(buf, i) ==
    [audio_format |-> UnpackU16(buf, i + 8),
     channels     |-> UnpackU16(buf, i + 10),
     rate         |-> UnpackU32(buf, i + 12),
     byte_rate    |-> UnpackU32(buf, i + 16),
     block_align  |-> UnpackU16(buf, i + 20),
     bits         |-> UnpackU16(buf, i + 22)]

\* mutant: the signature test looks at 'RIFF' only
HasRiffOnly(buf) ==
    /\ BLen(buf) >= 12
    /\ Tag(buf, 0) = TagRIFF

\* the first 12 bytes are 'RIFF' <size> 'WAVE'
HasRiffWave(buf) ==
    /\ BLen(buf) >= 12
    /\ Tag(buf, 0) = TagRIFF
    /\ Tag(buf, 8) = TagWAVE

\* one `fmt ` sub-chunk at i whose end lies in the buffer: the new fmt value
FmtBranch(buf, i, size, fmt) ==
    IF GeSmall(size, 16) THEN Some(ParseFmt(buf, i)) ELSE fmt

\* mutant: the `fmt ` branch waits for 16 payload bytes only
FmtWaitsFor16(buf, i, end) == BLen(buf) < i + 24

\* whether the `fmt ` branch waits for more bytes
FmtWaits(buf, i, end) == GtSmall(end, BLen(buf))

\* whether a sub-chunk with any other tag waits for more bytes
OtherWaits(buf, i, end) == GtSmall(end, BLen(buf))

\* mutant: a static parser, which wants the declared data bytes in the buffer
DataAcceptedStatic(buf, i, fmt) ==
    ~IsNone(fmt) /\ ~GtSmall(AddSmall(i + 8, UnpackU32(buf, i + 4)), BLen(buf))

\* mutant: a `data` tag is the data start whether or not fmt is known
DataAcceptedAlways(buf, i, fmt) == TRUE

\* whether a `data` tag at i is the data start
DataAccepted(buf, i, fmt) == ~IsNone(fmt)

\* mutant: the scan resumes after the size bytes, the 4-byte tag not counted
AdvanceSkipsTag(i, size, end) == i + 4 + size.lo

\* where the scan resumes after an acknowledged sub-chunk
Advance(i, size, end) == end.lo

RECURSIVE ScanLoop(_, _, _, _)
ScanLoop(buf, i, fmt, found) ==
    IF i + 8 > BLen(buf) THEN ScanResult(found, fmt, None)
    ELSE
      LET cid  == Tag(buf, i)
          size == UnpackU32(buf, i + 4)
          end  == AddSmall(i + 8, size)
      IN  IF cid = TagFmt THEN
            IF FmtWaits(buf, i, end) THEN ScanResult(found, fmt, None)
            ELSE ScanLoop(buf, Advance(i, size, end), FmtBranch(buf, i, size, fmt),
                          Append(found, <<cid, i, size>>))
          ELSE IF cid = TagData THEN
            IF ~DataAccepted(buf, i, fmt) THEN ScanResult(found, fmt, None)
            ELSE ScanResult(Append(found, <<cid, i, size>>), fmt, Some(i + 8))
          ELSE
            IF OtherWaits(buf, i, end) THEN ScanResult(found, fmt, None)
            ELSE ScanLoop(buf, Advance(i, size, end), fmt,
                          Append(found, <<cid, i, size>>))

scan_chunks_streaming(buf) ==
    IF ~HasRiffWave(buf) THEN ScanResult(<<>>, None, None)
    ELSE ScanLoop(buf, 12, None, <<>>)

(***************************************************************************)
(* dtype_for (tts_api_test.py:102-110).  Returns the dtype name, or raises *)
(* ValueError naming code and bits.                                        *)
(***************************************************************************)
Returned(v) == [ok |-> TRUE, val |-> v]
Raised(kind, info) == [ok |-> FALSE, err |-> kind, info |-> info]

PcmDtype(bits) ==
    CASE bits = 8  -> Some("int8")
      [] bits = 16 -> Some("int16")
      [] bits = 24 -> Some("int24")
      [] bits = 32 -> Some("int32")
      [] OTHER     -> None

\* mutant: IEEE float accepted at any bit depth
FloatDtypeAnyBits(code, bits) ==
    IF code = 3 THEN Some("float32") ELSE None

FloatDtype(code, bits) ==
    IF code = 3 /\ bits = 32 THEN Some("float32") ELSE None

dtype_for(code, bits) ==
    IF code = 1 /\ ~IsNone(PcmDtype(bits)) THEN Returned(Val(PcmDtype(bits)))
    ELSE IF ~IsNone(FloatDtype(code, bits)) THEN Returned(Val(FloatDtype(code, bits)))
    ELSE Raised("ValueError", <<code, bits>>)

(***************************************************************************)
(* Inputs: WAV-like byte strings built from sub-chunks.                    *)
(***************************************************************************)
\* payload bytes that follow the `data` header in the generated inputs
MaxPayload == 2
\* largest network chunk, in bytes, that the explicit part of a body is split into
MaxPiece == 3

LE16(n) == <<n % 256, n \div 256>>
LE32(n) == <<n % 256, (n \div 256) % 256, (n \div 65536) % 256, n \div Limb>>

RiffHeader == TagRIFF \o LE32(36) \o TagWAVE

\* the 16-byte PCM format record: mono, 8000 Hz
FmtRecord(code, bits) ==
    LE16(code) \o LE16(1) \o LE32(8000) \o LE32(8000 * (bits \div 8))
               \o LE16(bits \div 8) \o LE16(bits)

\* a sub-chunk: tag, declared size (4 bytes as given), the payload bytes present
SubChunk(tag, size4, payload) == tag \o size4 \o payload

Fmt16(code, bits) == SubChunk(TagFmt, LE32(16), FmtRecord(code, bits))
Fmt18(code, bits) == SubChunk(TagFmt, LE32(18), FmtRecord(code, bits) \o <<0, 0>>)
Fmt14 == SubChunk(TagFmt, LE32(14), SubSeq(FmtRecord(1, 16), 1, 14))
Fmt17 == SubChunk(TagFmt, LE32(17), FmtRecord(1, 16) \o <<0>>)
Fmt17Padded == Fmt17 \o <<0>>
List4 == SubChunk(TagLIST, LE32(4), <<73, 78, 70, 79>>)
List3 == SubChunk(TagLIST, LE32(3), <<1, 2, 3>>)
List3Padded == List3 \o <<0>>
ListHuge == SubChunk(TagLIST, <<240, 255, 255, 127>>, <<1, 2>>)
SizeMax == <<255, 255, 255, 255>>
Payload == [k \in 1..MaxPayload |-> k]
DataExact == SubChunk(TagData, LE32(MaxPayload), Payload)
DataStreaming == SubChunk(TagData, SizeMax, Payload)
DataZero == SubChunk(TagData, LE32(0), Payload)
DataOnlyHeader == SubChunk(TagData, SizeMax, <<>>)

\* two sub-chunks with an all-zero tag and a declared size of 0
ZeroRun == <<0, 0, 0, 0, 0, 0, 0, 0, 0, 0, 0, 0, 0, 0, 0, 0>>

ScanPre  == {<<>>, List4, List3, List3Padded, ListHuge, DataOnlyHeader, ZeroRun}
ScanFmt  == {<<>>, Fmt16(1, 16), Fmt18(65534, 16), Fmt14, Fmt17, Fmt17Padded}
ScanMid  == {<<>>, List4, List3Padded}
ScanData == {<<>>, DataExact, DataStreaming, DataZero}

BadHeaders ==
    { <<82, 73, 70, 88>> \o LE32(36) \o TagWAVE,
      TagRIFF \o LE32(36) \o <<87, 65, 86, 88>>,
      TagWAVE \o LE32(36) \o TagRIFF,
      TagRIFF \o TagWAVE }

ScanBodies ==
    { Bytes(RiffHeader \o a \o b \o c \o d) :
        a \in ScanPre, b \in ScanFmt, c \in ScanMid, d \in ScanData }
    \cup { Bytes(h \o Fmt16(1, 16) \o DataStreaming) : h \in BadHeaders }

FormatCodes == {0, 1, 2, 3, 7, 65534}
BitDepths == {0, 8, 16, 24, 32, 64}

(***************************************************************************)
(* SpecScan: the two pure functions applied to inputs.  A run either feeds *)
(* a body to scan_chunks_streaming in growing prefixes, scanning after     *)
(* each append, or calls dtype_for on (code, bits) pairs.                  *)
(***************************************************************************)
VARIABLES
    \* SpecScan: the function under test, its input and its result
    sfun, sbody, sbuf, sret, dargs, dret,
    \* Spec: play_stream's position, the upstream body and how much of it was
    \* iterated, the locals buf, found, fmt, data_off, data_started, stream, the
    \* header dump file and the exception that left play_stream
    pc, body, pos, buf, found, fmt, data_off, data_started, stream, dump, err,
    \* SpecRelay: the position in tts_stream / gen, the upstream response (status,
    \* content type, error body, body chunks and how many were read), its
    \* failure if it failed, gen's counter sent, whether the upstream stream was
    \* released, the exception that left gen, and what the downstream peer got
    \* (status line, chunks, ending)
    rpc, ustatus, uctype, udata, uchunks, unext, ufail, sent, released, rerr,
    dstatus, demitted, dend

scanVars == <<sfun, sbody, sbuf, sret, dargs, dret>>
playVars == <<pc, body, pos, buf, found, fmt, data_off, data_started, stream, dump, err>>
relayVars == <<rpc, ustatus, uctype, udata, uchunks, unext, ufail, sent, released, rerr,
               dstatus, demitted, dend>>
vars == <<scanVars, playVars, relayVars>>

\* play_stream before it is called
PlayIdle ==
    /\ pc = "idle" /\ body = Empty /\ pos = 0 /\ buf = Empty
    /\ found = <<>> /\ fmt = None /\ data_off = None
    /\ data_started = FALSE /\ stream = None /\ dump = None /\ err = None

\* the relay before a request arrives
RelayIdle ==
    /\ rpc = "idle" /\ ustatus = 0 /\ uctype = "" /\ udata = "" /\ uchunks = <<>>
    /\ unext = 1 /\ ufail = None /\ sent = 0 /\ released = FALSE /\ rerr = None
    /\ dstatus = None /\ demitted = <<>> /\ dend = "open"

\* the harness of the pure functions before it is used
ScanIdle ==
    /\ sfun = "idle" /\ sbody = Empty /\ sbuf = Empty
    /\ sret = None /\ dargs = None /\ dret = None

ScanInit ==
    /\ sfun \in {"scan", "dtype"}
    /\ sbody \in (IF sfun = "scan" THEN ScanBodies ELSE {Empty})
    /\ sbuf = Empty
    /\ sret = None
    /\ dargs = None
    /\ dret = None
    /\ PlayIdle
    /\ RelayIdle

\* found, fmt, data_off = scan_chunks_streaming(buf)
ScanCall ==
    /\ sfun = "scan"
    /\ IsNone(sret)
    /\ sret' = Some(scan_chunks_streaming(sbuf))
    /\ UNCHANGED <<sfun, sbody, sbuf, dargs, dret, playVars, relayVars>>

\* buf.extend(<the next k bytes of the body>)
ScanAppend ==
    /\ sfun = "scan"
    /\ ~IsNone(sret)
    /\ BLen(sbuf) < BLen(sbody)
    /\ \E k \in 1..MaxPiece :
          sbuf' = Concat(sbuf, Slice(sbody, BLen(sbuf), BLen(sbuf) + k))
    /\ sret' = None
    /\ UNCHANGED <<sfun, sbody, dargs, dret, playVars, relayVars>>

\* dtype_for(code, bits)
DtypeCall ==
    /\ sfun = "dtype"
    /\ \E code \in FormatCodes, bits \in BitDepths :
          /\ dargs' = Some(<<code, bits>>)
          /\ dret' = Some(dtype_for(code, bits))
    /\ UNCHANGED <<sfun, sbody, sbuf, sret, playVars, relayVars>>

ScanNext == ScanCall \/ ScanAppend \/ DtypeCall

SpecScan == ScanInit /\ [][ScanNext]_vars

(***************************************************************************)
(* play_stream (tts_api_test.py:117-189).                                  *)
(*                                                                         *)
(* pc: "start" (called), "iter" (inside the for loop over                  *)
(* r.iter_content), "returned", "raised" (an exception left play_stream;   *)
(* err tells which).  Every action that leaves the loop runs the finally   *)
(* block (stream.stop() if stream).  The sink is the record of what was    *)
(* done to the sd.RawOutputStream object.                                  *)
(***************************************************************************)
MAX_HEADER_BYTES == 1024 * 1024
CHUNK_SIZE == 4096

\* code = fmt["audio_format"]; if code == 0xFFFE: code = fmt.get("resolved_format") or 1
\* (scan_chunks_streaming never sets "resolved_format")
ResolveCode(f) == IF f.audio_format = 65534 THEN 1 ELSE f.audio_format

\* mutant: the bound is tested with >=
HeaderTooLongAtBound(b) == BLen(b) >= MAX_HEADER_BYTES

\* elif len(buf) > MAX_HEADER_BYTES
HeaderTooLong(b) == BLen(b) > MAX_HEADER_BYTES

\* mutant: the chunk replaces the buffer
ExtendForgets(b, chunk) == chunk

\* buf.extend(chunk)
Extend(b, chunk) == Concat(b, chunk)

\* sd.RawOutputStream(samplerate=rate, channels=ch, dtype=dtype, ...)
NewSink(f, dtype) ==
    [samplerate |-> f.rate, channels |-> f.channels, dtype |-> dtype,
     started |-> FALSE, stops |-> 0, written |-> <<>>]

SinkStart(s) == [s EXCEPT !.started = TRUE]
\* mutant: a write replaces what was written before
SinkWriteLast(s, data) == [s EXCEPT !.written = <<data>>]
\* stream.write(data)
SinkWrite(s, data) == [s EXCEPT !.written = Append(@, data)]

\* mutant: only a sink that was started is stopped
FinallyIfStarted(st) ==
    IF IsNone(st) \/ ~Val(st).started THEN st
    ELSE Some([Val(st) EXCEPT !.stops = @ + 1])

\* finally: if stream: stream.stop()
Finally(st) == IF IsNone(st) THEN st ELSE Some([Val(st) EXCEPT !.stops = @ + 1])

\* the faults the sink may raise in one pass of the loop body
SinkFaults == {"none", "open", "start", "write"}

\* what one pass of the loop body leaves behind
Outcome(b, r, started, st, dmp, npc, e) ==
    [buf |-> b, found |-> r.found, fmt |-> r.fmt, data_off |-> r.data_off,
     data_started |-> started, stream |-> st, dump |-> dmp, pc |-> npc, err |-> e]

\* lines 150-176: format and data start are known
OpenAndFlush(b, r, fault) ==
    LET f     == Val(r.fmt)
        dtype == dtype_for(ResolveCode(f), f.bits)
        s0    == NewSink(f, dtype.val)
        s1    == SinkStart(s0)
        pcm   == Slice(b, Val(r.data_off), BLen(b))
    IN  IF ~dtype.ok THEN
            Outcome(b, r, FALSE, Finally(None), None, "raised", Some(dtype))
        ELSE IF fault = "open" THEN
            Outcome(b, r, FALSE, Finally(None), None, "raised",
                    Some(Raised("PortAudioError", "open")))
        ELSE IF fault = "start" THEN
            Outcome(b, r, FALSE, Finally(Some(s0)), None, "raised",
                    Some(Raised("PortAudioError", "start")))
        ELSE IF BLen(pcm) > 0 /\ fault = "write" THEN
            Outcome(b, r, FALSE, Finally(Some(s1)), None, "raised",
                    Some(Raised("PortAudioError", "write")))
        ELSE IF BLen(pcm) > 0 THEN
            Outcome(b, r, TRUE, Some(SinkWrite(s1, pcm)), None, "iter", None)
        ELSE
            Outcome(b, r, TRUE, Some(s1), None, "iter", None)

\* lines 150-181: what the loop body does with the scan result r of buffer b
Decide(b, r, fault) ==
    IF ~IsNone(r.fmt) /\ ~IsNone(r.data_off) THEN OpenAndFlush(b, r, fault)
    ELSE IF HeaderTooLong(b) THEN
        Outcome(b, r, FALSE, Finally(None), Some(b), "raised",
                Some(Raised("RuntimeError", "header_not_found")))
    ELSE Outcome(b, r, FALSE, None, None, "iter", None)

\* the sizes of the next chunk of r.iter_content(chunk_size=4096): a full chunk,
\* or a short one where the body is explicit bytes
PieceLens(bd, at) ==
    {CHUNK_SIZE} \cup
    (IF at < Len(bd.head) \/ at >= Len(bd.head) + bd.fill THEN 1..MaxPiece ELSE {})

PlayFormats ==
    { <<1, 16>>, <<1, 24>>, <<3, 32>>, <<1, 64>>, <<3, 16>>, <<7, 16>>,
      <<65534, 16>>, <<65534, 64>> }
PlayPre  == {<<>>, List4}
PlayFmt  == {<<>>} \cup { Fmt16(cb[1], cb[2]) : cb \in PlayFormats }
PlayData == {<<>>, DataExact, DataStreaming}

\* the bytes from the data header to the end of the long bodies
LongTail == Fmt16(1, 16) \o DataStreaming
\* the fill of the long body whose data header ends 10 bytes past the bound
LongFill == MAX_HEADER_BYTES + 10 - 20 - (Len(LongTail) - MaxPayload)

LongBodies ==
    { \* no signature, more than MAX_HEADER_BYTES in all
      Norm(<<82, 73, 70, 88>> \o LE32(36) \o TagWAVE, MAX_HEADER_BYTES, <<>>),
      \* a `data` tag before any `fmt `
      Norm(RiffHeader \o DataOnlyHeader, MAX_HEADER_BYTES, <<>>),
      \* `fmt `, then a LIST sub-chunk that never completes
      Norm(RiffHeader \o Fmt16(1, 16) \o SubChunk(TagLIST, <<0, 0, 0, 127>>, <<>>),
           MAX_HEADER_BYTES, <<>>),
      \* a LIST sub-chunk of about 1 MiB, then `fmt ` and `data` across the bound
      Norm(RiffHeader \o SubChunk(TagLIST, LE32(LongFill), <<>>), LongFill, LongTail) }

PlayBodies ==
    { Bytes(RiffHeader \o a \o b \o c) : a \in PlayPre, b \in PlayFmt, c \in PlayData }
    \cup { Bytes(h \o Fmt16(1, 16) \o DataStreaming) : h \in BadHeaders }
    \cup LongBodies

PlayInit ==
    /\ pc = "start"
    /\ body \in PlayBodies
    /\ pos = 0 /\ buf = Empty
    /\ found = <<>> /\ fmt = None /\ data_off = None
    /\ data_started = FALSE /\ stream = None /\ dump = None /\ err = None
    /\ ScanIdle
    /\ RelayIdle

\* lines 118-119: API_KEY is empty
PlayNoKey ==
    /\ pc = "start"
    /\ pc' = "raised"
    /\ err' = Some(Raised("RuntimeError", "SUPERTONE_API_KEY"))
    /\ UNCHANGED <<body, pos, buf, found, fmt, data_off, data_started, stream, dump, scanVars, relayVars>>

\* lines 124-128: r.raise_for_status() on a 4xx or 5xx status
PlayHttpError ==
    /\ pc = "start"
    /\ \E status \in {401, 500} :
          err' = Some(Raised("HTTPError", status))
    /\ pc' = "raised"
    /\ UNCHANGED <<body, pos, buf, found, fmt, data_off, data_started, stream, dump, scanVars, relayVars>>

\* lines 124-135: status 200, the loop is entered
PlayOpen ==
    /\ pc = "start"
    /\ pc' = "iter"
    /\ buf' = Empty
    /\ data_started' = FALSE
    /\ stream' = None
    /\ UNCHANGED <<body, pos, found, fmt, data_off, dump, err, scanVars, relayVars>>

\* mutant: the loop body never takes the streaming branch
StreamingNever(started) == FALSE

\* line 139: the test `if not data_started` chooses the branch of the loop body
Streaming(started) == started

\* lines 137-138: if not chunk: continue
PlayEmptyChunk ==
    /\ pc = "iter"
    /\ UNCHANGED vars

\* lines 139-181: a chunk while the header is accumulated
PlayHeaderChunk ==
    /\ pc = "iter"
    /\ ~Streaming(data_started)
    /\ pos < BLen(body)
    /\ \E k \in PieceLens(body, pos) :
       \E b \in {Extend(buf, Slice(body, pos, pos + k))} :
       \E r \in {scan_chunks_streaming(b)} :
       \E fault \in SinkFaults :
       \E out \in {Decide(b, r, fault)} :
          /\ pos' = Min(pos + k, BLen(body))
          /\ buf' = out.buf
          /\ found' = out.found
          /\ fmt' = out.fmt
          /\ data_off' = out.data_off
          /\ data_started' = out.data_started
          /\ stream' = out.stream
          /\ dump' = out.dump
          /\ pc' = out.pc
          /\ err' = out.err
    /\ UNCHANGED <<body, scanVars, relayVars>>

\* lines 183-185: a chunk once data_started is True
PlayLiveChunk ==
    /\ pc = "iter"
    /\ Streaming(data_started)
    /\ pos < BLen(body)
    /\ \E k \in PieceLens(body, pos), fault \in {"none", "write"} :
          \E chunk \in {Slice(body, pos, pos + k)} :
              /\ pos' = pos + BLen(chunk)
              /\ IF fault = "write"
                   THEN /\ stream' = Finally(stream)
                        /\ pc' = "raised"
                        /\ err' = Some(Raised("PortAudioError", "write"))
                   ELSE /\ stream' = Some(SinkWrite(Val(stream), chunk))
                        /\ pc' = "iter"
                        /\ err' = None
    /\ UNCHANGED <<body, buf, found, fmt, data_off, data_started, dump, scanVars, relayVars>>

\* mutant: the end of the upstream body without a data start is the
\* header-not-found failure
PlayEndChecksHeader ==
    /\ pc = "iter"
    /\ pos = BLen(body)
    /\ stream' = Finally(stream)
    /\ IF data_started
         THEN /\ pc' = "returned"
              /\ UNCHANGED <<err, dump>>
         ELSE /\ pc' = "raised"
              /\ err' = Some(Raised("RuntimeError", "header_not_found"))
              /\ dump' = Some(buf)
    /\ UNCHANGED <<body, pos, buf, found, fmt, data_off, data_started, scanVars, relayVars>>

\* lines 136, 187-189: the upstream body is exhausted
PlayEnd ==
    /\ pc = "iter"
    /\ pos = BLen(body)
    /\ stream' = Finally(stream)
    /\ pc' = "returned"
    /\ UNCHANGED <<body, pos, buf, found, fmt, data_off, data_started, dump, err, scanVars, relayVars>>

\* lines 136, 187-189: r.iter_content raises (the connection broke)
PlayIterError ==
    /\ pc = "iter"
    /\ stream' = Finally(stream)
    /\ pc' = "raised"
    /\ err' = Some(Raised("ChunkedEncodingError", "iter_content"))
    /\ UNCHANGED <<body, pos, buf, found, fmt, data_off, data_started, dump, scanVars, relayVars>>

Next ==
    \/ PlayNoKey
    \/ PlayHttpError
    \/ PlayOpen
    \/ PlayEmptyChunk
    \/ PlayHeaderChunk
    \/ PlayLiveChunk
    \/ PlayEnd
    \/ PlayIterError

Init == PlayInit

Spec == Init /\ [][Next]_vars

(***************************************************************************)
(* tts_stream and its generator gen (tts_proxy.py:77-123).                 *)
(*                                                                         *)
(* tts_stream returns StreamingResponse(gen(), status_code=200): calling   *)
(* gen() runs none of its body.  The response's status line (200) goes to  *)
(* the downstream peer before the body iterator is advanced for the first  *)
(* time, so whatever gen raises, it raises after that status was sent; the *)
(* peer then sees the body break off (dend = "aborted").                   *)
(*                                                                         *)
(* rpc: "handler", "start" (the response is about to start), "open" (gen   *)
(* is about to open the upstream stream), "iter" (inside async for),       *)
(* "done" (gen returned), "raised" (an exception left gen; rerr).          *)
(***************************************************************************)
\* upstream body chunks per response in the generated inputs
MaxUpChunks == 3

UpStatuses == {200, 429, 500}
UpCtypes == {"application/json", "application/json; charset=utf-8", "text/plain"}
UpErrorBodies == {"{\"error\":\"rate limited\"}", "Too Many Requests", ""}
UpChunkValues == {<<>>, <<7>>, <<8, 9>>}
UpChunkSeqs == UNION { [1..n -> UpChunkValues] : n \in 0..MaxUpChunks }

\* "application/json" in ctype
IsJsonCtype(ctype) ==
    ctype \in {"application/json", "application/json; charset=utf-8"}

\* httpx.Response(200, content=data).json(): the parsed value, or None when the
\* text is not JSON (json() raises)
JsonLoads(text) ==
    IF text = "{\"error\":\"rate limited\"}"
      THEN Some([error |-> "rate limited"])
      ELSE None

\* data.decode("utf-8", "ignore") or "Upstream error"
TextDetail(text) == IF text = "" THEN "Upstream error" ELSE text

HTTPException(status, detail) ==
    [err |-> "HTTPException", status |-> status, detail |-> detail]
Propagated(class) == [err |-> class, status |-> 0, detail |-> [text |-> ""]]

\* the exception classes named by the except clause (lines 103-105)
CaughtClasses ==
    {"ReadError", "StreamClosed", "EndOfStream", "ClosedResourceError",
     "BrokenResourceError", "CancelledError"}

\* what upstream.aiter_bytes() may raise: the classes above, and
\* httpx.RemoteProtocolError (the peer closed the connection before the body
\* was complete), which the except clause does not name
IterFailures == CaughtClasses \cup {"RemoteProtocolError"}

\* lines 103-111: what gen does with an exception of class e from aiter_bytes:
\* <<"raise", exception>> or <<"return">>
OnIterFailure(e, nsent) ==
    IF e \in CaughtClasses
      THEN IF nsent = 0
             THEN <<"raise", HTTPException(502, [text |-> "Upstream stream error: " \o e])>>
             ELSE <<"return">>
      ELSE <<"raise", Propagated(e)>>

\* lines 87-95: the exception gen raises for a status other than 200
OnBadStatus(status, ctype, data) ==
    IF IsJsonCtype(ctype)
      THEN IF IsNone(JsonLoads(data))
             THEN Propagated("JSONDecodeError")
             ELSE HTTPException(status, [json |-> Val(JsonLoads(data))])
      ELSE HTTPException(status, [text |-> TextDetail(data)])

RelayInit ==
    /\ rpc = "handler"
    /\ ustatus \in UpStatuses
    /\ IF ustatus = 200
         THEN /\ uctype = "audio/wav" /\ udata = ""
              /\ uchunks \in UpChunkSeqs
         ELSE /\ uctype \in UpCtypes /\ udata \in UpErrorBodies
              /\ uchunks = <<>>
    /\ unext = 1 /\ ufail = None /\ sent = 0 /\ released = FALSE /\ rerr = None
    /\ dstatus = None /\ demitted = <<>> /\ dend = "open"
    /\ ScanIdle
    /\ PlayIdle

\* lines 78-123: tts_stream builds the payload and returns the StreamingResponse
TtsStream ==
    /\ rpc = "handler"
    /\ rpc' = "start"
    /\ UNCHANGED <<ustatus, uctype, udata, uchunks, unext, ufail, sent, released, rerr,
                   dstatus, demitted, dend, scanVars, playVars>>

\* lines 115-123: the response starts with the status it was constructed with
ResponseStart ==
    /\ rpc = "start"
    /\ dstatus' = Some(200)
    /\ rpc' = "open"
    /\ UNCHANGED <<ustatus, uctype, udata, uchunks, unext, ufail, sent, released, rerr,
                   demitted, dend, scanVars, playVars>>

\* line 85: client.stream(...) fails to connect; the exception leaves gen
GenConnectError ==
    /\ rpc = "open"
    /\ ufail' = Some("ConnectError")
    /\ rerr' = Some(Propagated("ConnectError"))
    /\ rpc' = "raised"
    /\ dend' = "aborted"
    /\ UNCHANGED <<ustatus, uctype, udata, uchunks, unext, sent, released,
                   dstatus, demitted, scanVars, playVars>>

\* lines 85-95: the upstream response arrived with a status other than 200
GenBadStatus ==
    /\ rpc = "open"
    /\ ustatus # 200
    /\ rerr' = Some(OnBadStatus(ustatus, uctype, udata))
    /\ released' = TRUE
    /\ rpc' = "raised"
    /\ dend' = "aborted"
    /\ UNCHANGED <<ustatus, uctype, udata, uchunks, unext, ufail, sent,
                   dstatus, demitted, scanVars, playVars>>

\* lines 85-87, 98-99: status 200, the async for is entered
GenOpen ==
    /\ rpc = "open"
    /\ ustatus = 200
    /\ rpc' = "iter"
    /\ UNCHANGED <<ustatus, uctype, udata, uchunks, unext, ufail, sent, released, rerr,
                   dstatus, demitted, dend, scanVars, playVars>>

\* mutant: every chunk is yielded, and yielded twice
YieldTwice(emitted, chunk) == emitted \o <<chunk, chunk>>

\* lines 100-102: if chunk: ...; yield chunk
Yield(emitted, chunk) ==
    IF Len(chunk) > 0 THEN Append(emitted, chunk) ELSE emitted

\* lines 99-102: the next upstream chunk; an empty one is not yielded
GenChunk ==
    /\ rpc = "iter"
    /\ unext <= Len(uchunks)
    /\ unext' = unext + 1
    /\ sent' = sent + Len(uchunks[unext])
    /\ demitted' = Yield(demitted, uchunks[unext])
    /\ UNCHANGED <<rpc, ustatus, uctype, udata, uchunks, ufail, released, rerr,
                   dstatus, dend, scanVars, playVars>>

\* lines 99, 85: the upstream body is exhausted; gen returns
GenEnd ==
    /\ rpc = "iter"
    /\ unext = Len(uchunks) + 1
    /\ released' = TRUE
    /\ rpc' = "done"
    /\ dend' = "clean"
    /\ UNCHANGED <<ustatus, uctype, udata, uchunks, unext, ufail, sent, rerr,
                   dstatus, demitted, scanVars, playVars>>

\* lines 99, 103-111: aiter_bytes raises while gen waits for the next chunk
GenIterFailure ==
    /\ rpc = "iter"
    /\ \E e \in IterFailures :
       \E act \in {OnIterFailure(e, sent)} :
          /\ ufail' = Some(e)
          /\ IF act[1] = "return"
               THEN /\ rpc' = "done"
                    /\ dend' = "clean"
                    /\ rerr' = None
               ELSE /\ rpc' = "raised"
                    /\ dend' = "aborted"
                    /\ rerr' = Some(act[2])
    /\ released' = TRUE
    /\ UNCHANGED <<ustatus, uctype, udata, uchunks, unext, sent,
                   dstatus, demitted, scanVars, playVars>>

RelayNext ==
    \/ TtsStream
    \/ ResponseStart
    \/ GenConnectError
    \/ GenBadStatus
    \/ GenOpen
    \/ GenChunk
    \/ GenEnd
    \/ GenIterFailure

SpecRelay == RelayInit /\ [][RelayNext]_vars

(***************************************************************************)
(* Properties of scan_chunks_streaming and dtype_for (SpecScan).           *)
(***************************************************************************)
Scanned == sfun = "scan" /\ ~IsNone(sret)
Ret == Val(sret)

\* the sub-chunk at p lies in the buffer with all its declared bytes
CompleteAt(b, p) ==
    /\ p + 8 <= BLen(b)
    /\ ~GtSmall(AddSmall(p + 8, UnpackU32(b, p + 4)), BLen(b))

\* the offset just past the complete sub-chunk at p
EndOf(b, p) == p + 8 + UnpackU32(b, p + 4).lo

\* a complete `fmt ` sub-chunk at p, a `data` tag and its size field right after it
FmtThenDataAt(b, p) ==
    /\ CompleteAt(b, p)
    /\ Tag(b, p) = TagFmt
    /\ EndOf(b, p) + 8 <= BLen(b)
    /\ Tag(b, EndOf(b, p)) = TagData

\* the sub-chunks laid end to end from i reach p; all of them are complete,
\* have an even declared size and a tag other than `data`
RECURSIVE EvenChunksReach(_, _, _)
EvenChunksReach(b, i, p) ==
    IF i = p THEN TRUE
    ELSE /\ i < p
         /\ CompleteAt(b, i)
         /\ Tag(b, i) # TagData
         /\ UnpackU32(b, i + 4).lo % 2 = 0
         /\ EvenChunksReach(b, EndOf(b, i), p)

\* the sub-chunks laid end to end from i reach p; all of them are complete, none
\* is a `data` sub-chunk and none is a `fmt ` sub-chunk of 16 bytes or more
RECURSIVE NoFmtChunksReach(_, _, _)
NoFmtChunksReach(b, i, p) ==
    IF i = p THEN TRUE
    ELSE /\ i < p
         /\ CompleteAt(b, i)
         /\ Tag(b, i) # TagData
         /\ ~(Tag(b, i) = TagFmt /\ GeSmall(UnpackU32(b, i + 4), 16))
         /\ NoFmtChunksReach(b, EndOf(b, i), p)

\* the signature test of the first 12 bytes, stated on slices
SignatureMissing(b) ==
    \/ BLen(b) < 12
    \/ Slice(b, 0, 4) # Bytes(TagRIFF)
    \/ Slice(b, 8, 12) # Bytes(TagWAVE)

Offsets(b) == 12..(BLen(b) - 8)

\* C1 as stated: whenever the buffer starts with RIFF/WAVE and holds a complete
\* `fmt ` sub-chunk followed at once by a `data` tag and its size field, the scan
\* returns data_off = (offset of the data tag) + 8.
C1_AsStated ==
    Scanned /\ ~SignatureMissing(sbuf) =>
        \A p \in Offsets(sbuf) :
            FmtThenDataAt(sbuf, p) => Ret.data_off = Some(EndOf(sbuf, p) + 8)

\* C1 amended: the same, for a `fmt ` sub-chunk that declares at least 16 bytes and
\* is reached from offset 12 over complete sub-chunks of even declared size, none
\* of them a `data` sub-chunk.  The declared data size plays no part.
C1_DataStartFromHeader ==
    Scanned /\ ~SignatureMissing(sbuf) =>
        \A p \in Offsets(sbuf) :
            ( /\ FmtThenDataAt(sbuf, p)
              /\ GeSmall(UnpackU32(sbuf, p + 4), 16)
              /\ EvenChunksReach(sbuf, 12, p) )
            => /\ Ret.data_off = Some(EndOf(sbuf, p) + 8)
               /\ Ret.fmt = Some(ParseFmt(sbuf, p))

\* C1 witness: a scan that returned the data start although the declared data
\* size (2^32 - 1) is far more than the bytes that follow the data header (none).
C1_Witness ==
    /\ Scanned
    /\ \E p \in Offsets(sbuf) :
          /\ p > 12
          /\ FmtThenDataAt(sbuf, p)
          /\ GeSmall(UnpackU32(sbuf, p + 4), 16)
          /\ EvenChunksReach(sbuf, 12, p)
          /\ UnpackU32(sbuf, EndOf(sbuf, p) + 4) = U32(255, Limb - 1)
          /\ BLen(sbuf) = EndOf(sbuf, p) + 8
          /\ Ret.data_off = Some(BLen(sbuf))

\* C2: when the scan meets a `data` tag (with its size field) before any
\* FormatDescriptor was parsed, it returns no data start and no format, and it
\* acknowledges nothing at or after that tag, however many bytes follow.
C2_DataBeforeFmtHalts ==
    Scanned /\ ~SignatureMissing(sbuf) =>
        \A p \in Offsets(sbuf) :
            (Tag(sbuf, p) = TagData /\ NoFmtChunksReach(sbuf, 12, p))
            => /\ Ret.data_off = None
               /\ Ret.fmt = None
               /\ \A k \in 1..Len(Ret.found) : Ret.found[k][2] < p

\* C2 witness: a `data` tag met before any format, with a complete `fmt ` sub-chunk
\* and more bytes behind it in the buffer.
C2_Witness ==
    /\ Scanned
    /\ ~SignatureMissing(sbuf)
    /\ \E p \in Offsets(sbuf) :
          /\ Tag(sbuf, p) = TagData
          /\ NoFmtChunksReach(sbuf, 12, p)
          /\ \E q \in Offsets(sbuf) : q > p /\ FmtThenDataAt(sbuf, q)
          /\ Ret.data_off = None

\* C3: a buffer whose first 12 bytes are not 'RIFF' <size> 'WAVE' (or that is
\* shorter than 12 bytes) scans to an empty chunk list, no format and no data
\* start; every re-scan after an append that leaves the signature missing
\* returns the same.
C3_NoSignatureNoResult ==
    Scanned /\ SignatureMissing(sbuf) => Ret = ScanResult(<<>>, None, None)

\* C3 witness: a re-scan of a buffer of 40 bytes or more without the signature,
\* holding a `fmt ` sub-chunk and a `data` header.
C3_Witness ==
    /\ Scanned
    /\ SignatureMissing(sbuf)
    /\ BLen(sbuf) >= 40
    /\ Tag(sbuf, 0) = TagRIFF
    /\ Tag(sbuf, 12) = TagFmt
    /\ Ret = ScanResult(<<>>, None, None)

\* the table of supported formats
DtypeTable ==
    { <<1, 8, "int8">>, <<1, 16, "int16">>, <<1, 24, "int24">>, <<1, 32, "int32">>,
      <<3, 32, "float32">> }

\* C6: dtype_for returns int8/int16/int24/int32 for code 1 with 8/16/24/32 bits
\* and float32 for code 3 with 32 bits; every other (code, bits) pair raises the
\* unsupported-format error, which names code and bits.
C6_DtypeTable ==
    (sfun = "dtype" /\ ~IsNone(dargs)) =>
        LET code == Val(dargs)[1]
            bits == Val(dargs)[2]
            rows == { t \in DtypeTable : t[1] = code /\ t[2] = bits }
        IN  IF rows = {}
              THEN Val(dret) = [ok |-> FALSE, err |-> "ValueError", info |-> <<code, bits>>]
              ELSE \E t \in rows : Val(dret) = [ok |-> TRUE, val |-> t[3]]

\* C6 witness: dtype_for(3, 16) was called and raised.
C6_Witness ==
    /\ sfun = "dtype"
    /\ dargs = Some(<<3, 16>>)
    /\ ~Val(dret).ok

(***************************************************************************)
(* Properties of play_stream (Spec).                                       *)
(***************************************************************************)
HeaderNotFound(e) ==
    /\ ~IsNone(e)
    /\ Val(e).err = "RuntimeError"
    /\ Val(e).info = "header_not_found"
Located(f, off) == ~IsNone(f) /\ ~IsNone(off)

\* C4: the header-not-found failure is entered only by the chunk that takes the
\* buffered length from at most MAX_HEADER_BYTES to more than MAX_HEADER_BYTES;
\* that chunk does enter it when format and data start are not both located; and
\* no step follows the failure, so it is entered once.
C4_FailsOnceWhenBoundCrossed ==
    [][ /\ HeaderNotFound(err') =>
              /\ ~HeaderNotFound(err)
              /\ pc = "iter" /\ ~data_started
              /\ BLen(buf) <= MAX_HEADER_BYTES
              /\ BLen(buf') > MAX_HEADER_BYTES
              /\ ~Located(fmt', data_off')
              /\ dump' = Some(buf')
              /\ pc' = "raised"
        /\ (pc = "iter" /\ ~data_started /\ BLen(buf') > MAX_HEADER_BYTES
              /\ ~Located(fmt', data_off')) => HeaderNotFound(err')
        /\ (pc = "iter" /\ ~data_started) => BLen(buf) <= MAX_HEADER_BYTES
      ]_vars

\* C4 witness: the failure entered at MAX_HEADER_BYTES + 1 buffered bytes, with the
\* format known and the data start not.
C4_Witness ==
    /\ HeaderNotFound(err)
    /\ BLen(buf) = MAX_HEADER_BYTES + 1
    /\ ~IsNone(fmt)
    /\ IsNone(data_off)
    /\ dump = Some(buf)

\* C5: the format and data start that play_stream's chunk-by-chunk re-scans first
\* report are those of one scan of the whole body; and when the whole body was
\* fed without a data start being reported, one scan of it reports none either.
C5_IncrementalEqualsOneShot ==
    /\ (pc \in {"iter", "returned", "raised"} /\ ~IsNone(data_off)) =>
          /\ fmt = scan_chunks_streaming(body).fmt
          /\ data_off = scan_chunks_streaming(body).data_off
    /\ (pc = "returned" /\ IsNone(data_off)) =>
          IsNone(scan_chunks_streaming(body).data_off)

\* C5 witness: a data start first reported on a proper prefix of the body that
\* arrived in several chunks, behind a LIST and a `fmt ` sub-chunk.
C5_Witness ==
    /\ pc = "iter"
    /\ data_started
    /\ Len(found) = 3
    /\ BLen(buf) < BLen(body)
    /\ BLen(buf) = Val(data_off) + 1

\* C7 as stated: whenever the parsed format code is neither 1 nor 3, the
\* accumulation ends in the unsupported-format failure, no sink is opened and
\* nothing is written.
C7_AsStated ==
    (Located(fmt, data_off) /\ Val(fmt).audio_format \notin {1, 3}) =>
        /\ pc = "raised"
        /\ ~IsNone(err) /\ Val(err).err = "ValueError"
        /\ IsNone(stream)

(***************************************************************************)
(* Properties of the relay (SpecRelay).                                    *)
(***************************************************************************)
\* the upstream body iteration failed
IterationFailed == ~IsNone(ufail) /\ Val(ufail) \in IterFailures

\* C8 as stated: an upstream response with a status other than 200, a JSON
\* content type and a JSON body reaches the downstream peer with that status and
\* that parsed body, in a response that ends cleanly.
C8_AsStated ==
    (rpc \in {"raised", "done"} /\ ustatus # 200 /\ IsJsonCtype(uctype)
        /\ ~IsNone(JsonLoads(udata)) /\ IsNone(ufail)) =>
        /\ dstatus = Some(ustatus)
        /\ dend = "clean"

\* C9 as stated: when the upstream body iteration fails before any byte was
\* emitted, the downstream response has status 502.
C9_AsStated ==
    (IterationFailed /\ sent = 0) => dstatus = Some(502)

\* C10 as stated: when the upstream body iteration fails after at least one byte
\* was emitted, gen returns: the outbound stream ends cleanly and no exception
\* leaves gen.
C10_AsStated ==
    (IterationFailed /\ sent > 0) =>
        /\ rpc = "done"
        /\ dend = "clean"
        /\ IsNone(rerr)

\* the bytes of a sequence of chunks, laid end to end
RECURSIVE Flat(_)
Flat(chunks) == IF chunks = <<>> THEN <<>> ELSE Head(chunks) \o Flat(Tail(chunks))

\* C11: for an upstream response with status 200 and no transport failure, the
\* bytes gen has emitted are at every moment the concatenation of the upstream
\* chunks read so far, in arrival order, and sent counts them; when gen returns
\* they are the whole upstream body.
C11_RelayIsByteIdentical ==
    (ustatus = 200 /\ rpc \in {"iter", "done"} /\ IsNone(ufail)) =>
        /\ Flat(demitted) = Flat(SubSeq(uchunks, 1, unext - 1))
        /\ sent = Len(Flat(demitted))
        /\ \A k \in 1..Len(demitted) : Len(demitted[k]) > 0
        /\ rpc = "done" => Flat(demitted) = Flat(uchunks)

\* C11 witness: a body of three chunks, the second one empty, relayed to the end.
C11_Witness ==
    /\ rpc = "done"
    /\ IsNone(ufail)
    /\ Len(uchunks) = 3
    /\ uchunks[2] = <<>>
    /\ demitted = <<uchunks[1], uchunks[3]>>
    /\ uchunks[1] # uchunks[3]
    /\ sent = 3

(***************************************************************************)
(* More properties of play_stream (Spec).                                  *)
(***************************************************************************)
\* play_stream was left: it returned or an exception propagated
PlayExited == pc \in {"returned", "raised"}

\* C12: once a sink object exists, every way out of play_stream (the end of the
\* upstream stream, an exception from the sink's start or write, an exception
\* from the chunk iteration) has called its stop() exactly once, and stop() is
\* not called while the loop runs.
C12_SinkStoppedOnceOnExit ==
    ~IsNone(stream) =>
        /\ PlayExited => Val(stream).stops = 1
        /\ pc = "iter" => Val(stream).stops = 0

\* C12 witness: the sink was constructed, its start() raised, and it was stopped.
C12_Witness ==
    /\ pc = "raised"
    /\ ~IsNone(err) /\ Val(err).err = "PortAudioError"
    /\ ~IsNone(stream)
    /\ ~Val(stream).started
    /\ Val(stream).stops = 1

\* the bytes of a sequence of writes, laid end to end
RECURSIVE Joined(_)
Joined(ws) == IF ws = <<>> THEN Empty ELSE Concat(Head(ws), Joined(Tail(ws)))

\* C13: once play_stream is streaming, the writes the sink received, laid end to
\* end, are the upstream bytes from the data start up to the last chunk
\* iterated, in upstream order; no write is empty; and when payload bytes had
\* arrived with the header, the first write is exactly that buffered tail.
C13_SinkGetsPayloadInOrder ==
    (data_started /\ pc \in {"iter", "returned"}) =>
        LET w   == Val(stream).written
            off == Val(data_off)
        IN  /\ Joined(w) = Slice(body, off, pos)
            /\ \A k \in 1..Len(w) : BLen(w[k]) > 0
            /\ BLen(buf) > off =>
                  /\ Len(w) >= 1
                  /\ w[1] = Slice(buf, off, BLen(buf))
            /\ BLen(buf) = off => Joined(w) = Slice(body, BLen(buf), pos)

\* C13 witness: one payload byte arrived with the header and was written first,
\* the rest of the payload came in a later chunk and was written after it.
C13_Witness ==
    /\ pc = "returned"
    /\ data_started
    /\ pos = BLen(body)
    /\ BLen(buf) = Val(data_off) + 1
    /\ Len(Val(stream).written) = 2
    /\ Val(stream).written[1] = Slice(body, Val(data_off), Val(data_off) + 1)
    /\ Val(stream).written[2] = Slice(body, Val(data_off) + 1, BLen(body))

\* C14 as stated: once 12 bytes are buffered and they are not a RIFF/WAVE
\* signature, play_stream has failed; it does not go on accumulating chunks.
C14_AsStated ==
    (pc \in {"iter", "returned", "raised"} /\ BLen(buf) >= 12 /\ SignatureMissing(buf)) =>
        /\ pc = "raised"
        /\ ~IsNone(err)
        /\ BLen(buf) <= MAX_HEADER_BYTES

\* the chunk iteration itself failed
IterContentFailed(e) == ~IsNone(e) /\ Val(e).err = "ChunkedEncodingError"

\* C19: when the upstream body is exhausted while play_stream is still
\* accumulating (the buffer then holds the whole body and has not exceeded
\* MAX_HEADER_BYTES), the step that leaves the loop returns normally: no error is
\* raised, no dump is written and no sink exists.
C19_EndWhileAccumulatingReturns ==
    [][ (pc = "iter" /\ ~data_started /\ pos = BLen(body) /\ pc' # "iter"
            /\ ~IterContentFailed(err')) =>
          /\ buf = body
          /\ BLen(buf) <= MAX_HEADER_BYTES
          /\ pc' = "returned"
          /\ IsNone(err')
          /\ IsNone(dump')
          /\ IsNone(stream')
      ]_vars

\* C19 witness: a body of 48 bytes without the RIFF/WAVE signature was read to
\* its end and play_stream returned with nothing opened, dumped or raised.
C19_Witness ==
    /\ pc = "returned"
    /\ ~data_started
    /\ buf = body
    /\ BLen(buf) >= 40
    /\ SignatureMissing(buf)
    /\ IsNone(err) /\ IsNone(dump) /\ IsNone(stream)

(***************************************************************************)
(* More properties of scan_chunks_streaming (SpecScan).                    *)
(***************************************************************************)
\* the even-padded end of an acknowledged sub-chunk <<cid, start, size>>
PaddedEnd(e) == e[2] + 8 + e[3].lo + (e[3].lo % 2)

\* C15 as stated: after an acknowledged `fmt ` or generic sub-chunk of odd declared
\* size the scan resumes at offset + 8 + size + 1 (the next acknowledged
\* sub-chunk starts there, and a complete `fmt ` sub-chunk lying there is
\* acknowledged), and a generic sub-chunk of odd size is acknowledged only when
\* the buffer holds its pad byte too.
C15_AsStated ==
    Scanned =>
        \A k \in 1..Len(Ret.found) :
            LET e == Ret.found[k]
            IN  (e[1] # TagData /\ e[3].lo % 2 = 1) =>
                  /\ k < Len(Ret.found) => Ret.found[k + 1][2] = PaddedEnd(e)
                  /\ (CompleteAt(sbuf, PaddedEnd(e)) /\ Tag(sbuf, PaddedEnd(e)) = TagFmt)
                        => k < Len(Ret.found)
                  /\ e[1] # TagFmt => BLen(sbuf) >= PaddedEnd(e)

\* a `fmt ` tag and its size field lie at p, and the scan gets there with no
\* FormatDescriptor parsed before
FmtTagReached(b, p) ==
    /\ p + 8 <= BLen(b)
    /\ Tag(b, p) = TagFmt
    /\ NoFmtChunksReach(b, 12, p)

\* a `fmt ` sub-chunk of 16 bytes or more is acknowledged after entry k
LaterFmt(fnd, k) ==
    \E j \in (k + 1)..Len(fnd) : fnd[j][1] = TagFmt /\ GeSmall(fnd[j][3], 16)

\* C16 as stated: at a `fmt ` tag the scan waits exactly while fewer than 16 payload
\* bytes are buffered; with 16 payload bytes buffered it returns the
\* FormatDescriptor parsed from them, whatever the declared size.
C16_AsStated ==
    Scanned /\ ~SignatureMissing(sbuf) =>
        \A p \in Offsets(sbuf) :
            FmtTagReached(sbuf, p) =>
                IF BLen(sbuf) < p + 24
                  THEN Ret.fmt = None
                  ELSE Ret.fmt = Some(ParseFmt(sbuf, p))

\* C16 amended: at a `fmt ` tag the scan waits while the declared extent of the
\* sub-chunk (offset + 8 + declared size) is not fully buffered, and then returns
\* no format, no data start and nothing acknowledged at or after the tag.  Once
\* the whole declared sub-chunk is buffered it is acknowledged; the
\* FormatDescriptor is parsed from its first 16 payload bytes when the declared
\* size is at least 16, and no FormatDescriptor comes from it otherwise.
C16_FmtWaitsForDeclaredSize ==
    Scanned /\ ~SignatureMissing(sbuf) =>
        \A p \in Offsets(sbuf) :
            FmtTagReached(sbuf, p) =>
                IF ~CompleteAt(sbuf, p)
                  THEN /\ Ret.fmt = None
                       /\ Ret.data_off = None
                       /\ \A k \in 1..Len(Ret.found) : Ret.found[k][2] < p
                  ELSE \E k \in 1..Len(Ret.found) :
                          /\ Ret.found[k] = <<TagFmt, p, UnpackU32(sbuf, p + 4)>>
                          /\ ~LaterFmt(Ret.found, k) =>
                                Ret.fmt = (IF GeSmall(UnpackU32(sbuf, p + 4), 16)
                                             THEN Some(ParseFmt(sbuf, p))
                                             ELSE None)

\* C16 witness: a `fmt ` sub-chunk that declares 18 bytes, with 16 or 17 of them
\* buffered: the scan waits and returns no format.
C16_Witness ==
    /\ Scanned
    /\ FmtTagReached(sbuf, 12)
    /\ UnpackU32(sbuf, 16) = U32(0, 18)
    /\ BLen(sbuf) \in {36, 37}
    /\ Ret = ScanResult(<<>>, None, None)

\* the sink object apart from what was written to it and its stop count
SinkIdentity(st) == [Val(st) EXCEPT !.written = <<>>, !.stops = 0]

\* ws is ws2 or a beginning of it
IsPrefix(ws, ws2) == Len(ws) <= Len(ws2) /\ SubSeq(ws2, 1, Len(ws)) = ws

\* C17: once data_started is set it stays set, and no later step appends to the
\* buffer, changes the scan results (found, fmt, data_off), or replaces the
\* sink: the sink object stays the one that was opened and only receives more
\* writes (and its stop on the way out).
C17_StreamingIsPermanent ==
    [][ data_started =>
          /\ data_started'
          /\ buf' = buf
          /\ found' = found /\ fmt' = fmt /\ data_off' = data_off
          /\ dump' = dump
          /\ ~IsNone(stream')
          /\ SinkIdentity(stream') = SinkIdentity(stream)
          /\ IsPrefix(Val(stream).written, Val(stream').written)
      ]_vars

\* C17 witness: two chunks were handled by the streaming branch after the
\* transition, behind a header that arrived with no payload byte.
C17_Witness ==
    /\ pc = "iter"
    /\ data_started
    /\ BLen(buf) = Val(data_off)
    /\ pos = BLen(buf) + 2
    /\ Len(Val(stream).written) = 2

(***************************************************************************)
(* More properties of the relay (SpecRelay).                               *)
(***************************************************************************)
\* the relay task was cancelled while gen waited for the next upstream chunk
Cancelled == ~IsNone(ufail) /\ Val(ufail) = "CancelledError"

\* C18 as stated: when the relay is cancelled while gen waits for the next
\* upstream chunk, the upstream stream is released and the cancellation leaves
\* gen as it is: gen does not return as at a normal end and raises no other
\* error in its place, whether or not bytes were emitted before.
C18_AsStated ==
    Cancelled =>
        /\ released
        /\ rpc = "raised"
        /\ ~IsNone(rerr)
        /\ Val(rerr).err = "CancelledError"

\* C20: every scan returns a result (it does not raise and it ends); the
\* acknowledged sub-chunks start at 12 and then at least 8 bytes apart, each
\* with its 8-byte header inside the buffer, so the loop ran at most
\* (len(buf) - 12) / 8 times with an acknowledgement and once more to stop;
\* only the last acknowledged sub-chunk can be the `data` one, and the declared
\* sizes, up to 2^32 - 1, are reported as read.
C20_ScanTerminates ==
    Scanned =>
        LET fnd == Ret.found
        IN  /\ Len(fnd) > 0 => fnd[1][2] = 12
            /\ \A k \in 1..Len(fnd) :
                  /\ fnd[k][2] + 8 <= BLen(sbuf)
                  /\ fnd[k][1] = Tag(sbuf, fnd[k][2])
                  /\ fnd[k][3] = UnpackU32(sbuf, fnd[k][2] + 4)
                  /\ k < Len(fnd) =>
                        /\ fnd[k + 1][2] >= fnd[k][2] + 8
                        /\ fnd[k][1] # TagData
            /\ 8 * Len(fnd) <= Max(BLen(sbuf) - 12, 0)
            /\ ~IsNone(Ret.data_off) =>
                  /\ Len(fnd) > 0
                  /\ Val(Ret.data_off) = fnd[Len(fnd)][2] + 8
                  /\ Val(Ret.data_off) <= BLen(sbuf)

\* C20 witness: a scan that acknowledged two sub-chunks of declared size 0, eight
\* bytes apart, and then a `data` sub-chunk whose declared size is 2^32 - 1.
C20_Witness ==
    /\ Scanned
    /\ Len(Ret.found) >= 4
    /\ Ret.found[1][3] = U32(0, 0)
    /\ Ret.found[2][2] = Ret.found[1][2] + 8
    /\ Ret.found[Len(Ret.found)][1] = TagData
    /\ Ret.found[Len(Ret.found)][3] = U32(255, Limb - 1)

=============================================================================
